---------------------------- MODULE Spec2Model ----------------------------
(***************************************************************************)
(* kokosa-forward: the guest-message relay pipeline (handleGuestMessage)   *)
(* over the shared key-value store.  Every await on the store or on an     *)
(* external service is one step of a handler, so concurrently handled      *)
(* updates interleave exactly at the points where the code suspends.       *)
(***************************************************************************)
EXTENDS Integers, Sequences, FiniteSets, TLC

(***************************************************************************)
(* Bounds of the model.                                                    *)
(***************************************************************************)
MaxMsgId == 2
MaxUpdates == 3
MaxInFlight == 2
MaxAdvances == 3
MaxCalls == 12
MaxIncrements == 5

(***************************************************************************)
(* Program constants (config.js).                                          *)
(***************************************************************************)
ElevenRequests == 10 + 1
RATE_LIMIT_MAX_REQUESTS == 10
ThirtySeconds == 60000 \div 2
RATE_LIMIT_WINDOW_MS == 60000
ThresholdOfFour == 3 + 1
TRUST_THRESHOLD == 3
ENABLE_FILTER == TRUE
AUTO_BLOCK == TRUE

\* Two guests: whatever one does, the other is the bystander whose state must
\* stay as it is.  Guest 1 has earlier traffic in the store (see Init).
Guests == {1, 2}
Veterans == {1}
MsgIds == 1..MaxMsgId
Texts == {"t1", "t2"}
Commands == {"/lang", "/appeal", "/start"}
NULL == "null"
Violation == "spam"

\* The shapes of guest message the handler distinguishes: text is what
\* message.text holds ("" when absent).
NoMedia == "none"
TextShapes == [text : Texts \cup Commands, caption : {""}, photo : {FALSE},
               sticker : {NoMedia}]
\* Messages without text: a photo with or without caption, a static sticker,
\* an animated (or video) sticker.
MediaShapes ==
    [text : {""}, caption : {"", "t1"}, photo : {TRUE}, sticker : {NoMedia}]
    \cup [text : {""}, caption : {""}, photo : {FALSE},
          sticker : {"static", "animated"}]
Shapes == TextShapes \cup MediaShapes

(***************************************************************************)
(* The key-value store collaborator: get(key) -> value | null, put.        *)
(* A store is a function whose domain is the set of keys present.          *)
(***************************************************************************)
Has(kv, k) == k \in DOMAIN kv
Get(kv, k, default) == IF k \in DOMAIN kv THEN kv[k] ELSE default
Put(kv, k, v) == [x \in DOMAIN kv \cup {k} |-> IF x = k THEN v ELSE kv[x]]
EmptyStore == [x \in {} |-> NULL]

VARIABLES
    blocked,    \* guest -> [reason, blockedAt]          (Guest State Manager)
    rate,       \* guest -> [count, windowStart]         (Rate Limiter)
    trust,      \* guest -> trust score                  (Trust Scorer)
    cache,      \* text  -> cached moderation verdict    (Moderation Cache)
    counter,    \* the named counter "ai-blocks"
    relays,     \* <<guest, message id>> -> RelayRecord  (Relay Registry)
    links,      \* admin message id -> relay id
    now,        \* the clock, in ms
    geminiKey,  \* whether ENV_GEMINI_API_KEY is configured
    hs,         \* slot -> the update being handled there, or idle
    fwdLog,     \* admin message id -> <<guest, message id>> actually forwarded
    nextAdminId,\* the next message id of the admin chat
    updates,    \* number of updates received so far
    sent,       \* <<guest, message id>> -> the message, as the guest's chat holds it
    allowed,    \* guest -> calls of checkRateLimit allowed in the current window
    passed,     \* guest -> messages whose trust increment followed a safe verdict
    seq,        \* the record of a caller that makes one storage call at a time
    scored      \* text -> calls of checkContentSafety made for it

store == <<blocked, rate, trust, cache, counter, relays, links>>
setting == <<now, geminiKey>>
feed == <<updates, sent>>
tally == <<allowed, passed, seq, scored>>
vars == <<blocked, rate, trust, cache, counter, relays, links, now, geminiKey,
          hs, fwdLog, nextAdminId, updates, sent, allowed, passed, seq, scored>>

NoWindow == [present |-> FALSE, count |-> 0, windowStart |-> 0]
NoFwd == [ok |-> FALSE, id |-> 0]
NoResolve == [a |-> 0, found |-> FALSE, guestId |-> 0, guestMessageId |-> 0]


(***************************************************************************)
(* storage.js: the operations handleGuestMessage imports.                  *)
(***************************************************************************)
\* isGuestBlocked(kv, guestId)
isGuestBlocked(kvBlocked, g) == Has(kvBlocked, g)

\* A block that stores no reason.
setGuestBlockedNoReason(kvBlocked, g, b, reason, t) ==
    IF b THEN Put(kvBlocked, g, [reason |-> "", blockedAt |-> t])
    ELSE [x \in DOMAIN kvBlocked \ {g} |-> kvBlocked[x]]

\* setGuestBlocked(kv, guestId, blocked, reason): blocking stores reason and
\* blockedAt; unblocking clears the block fields.
setGuestBlocked(kvBlocked, g, b, reason, t) ==
    IF b THEN Put(kvBlocked, g, [reason |-> reason, blockedAt |-> t])
    ELSE [x \in DOMAIN kvBlocked \ {g} |-> kvBlocked[x]]

\* getBlockInfo(kv, guestId) -> {reason, blockedAt} | null
getBlockInfo(kvBlocked, g) ==
    IF Has(kvBlocked, g)
    THEN [found |-> TRUE, reason |-> kvBlocked[g].reason,
          blockedAt |-> kvBlocked[g].blockedAt]
    ELSE [found |-> FALSE, reason |-> "", blockedAt |-> 0]

\* checkRateLimit, first half: load the guest's window.
loadRateWindow(kvRate, g) ==
    IF Has(kvRate, g)
    THEN [present |-> TRUE, count |-> kvRate[g].count,
          windowStart |-> kvRate[g].windowStart]
    ELSE NoWindow

CeilDiv(x, d) == (x + d - 1) \div d

\* The window after the expiry test: a missing or elapsed window restarts
\* at the current time with count 0.
currentWindow(win, t) ==
    IF ~win.present \/ t - win.windowStart >= RATE_LIMIT_WINDOW_MS
    THEN [count |-> 0, windowStart |-> t]
    ELSE [count |-> win.count, windowStart |-> win.windowStart]

\* checkRateLimit, second half: decide on the loaded window and say what
\* is persisted.  A denied call persists nothing.
decideRateLimit(win, t) ==
    LET w == currentWindow(win, t) IN
    IF w.count >= RATE_LIMIT_MAX_REQUESTS
    THEN [allowed |-> FALSE,
          resetIn |-> CeilDiv(w.windowStart + RATE_LIMIT_WINDOW_MS - t, 1000),
          window |-> w]
    ELSE [allowed |-> TRUE, resetIn |-> 0,
          window |-> [count |-> w.count + 1, windowStart |-> w.windowStart]]

\* isUserTrusted(kv, userId)
isUserTrusted(kvTrust, g) == Get(kvTrust, g, 0) >= TRUST_THRESHOLD

\* getCachedModerationResult(kv, text) -> {hit, result}
getCachedModerationResult(kvCache, text) ==
    IF Has(kvCache, text) THEN [hit |-> TRUE, result |-> kvCache[text]]
    ELSE [hit |-> FALSE, result |-> NULL]

\* A cache that keeps flagged verdicts only.
cacheOnlyFlagged(kvCache, text, result) ==
    IF result # NULL THEN Put(kvCache, text, result) ELSE kvCache

\* cacheModerationResult(kv, text, result)
cacheModerationResult(kvCache, text, result) == Put(kvCache, text, result)

\* createRelay(kv, guestId, message): the record is keyed by the composite
\* of guest id and guest message id and persisted.
relayId(g, m) == <<g, m>>
relayRecord(g, m, preview) ==
    [id |-> relayId(g, m), guestId |-> g, guestMessageId |-> m,
     preview |-> preview]
createRelay(kvRelays, g, m, preview) ==
    Put(kvRelays, relayId(g, m), relayRecord(g, m, preview))

\* linkAdminMessage(kv, adminMessageId, relayId)
linkAdminMessage(kvLinks, a, rid) == Put(kvLinks, a, rid)

\* resolveRelay(kv, adminMessageId) -> RelayRecord | not-found
resolveRelay(kvLinks, kvRelays, a) ==
    IF Has(kvLinks, a) /\ Has(kvRelays, kvLinks[a])
    THEN [a |-> a, found |-> TRUE, guestId |-> kvRelays[kvLinks[a]].guestId,
          guestMessageId |-> kvRelays[kvLinks[a]].guestMessageId]
    ELSE [a |-> a, found |-> FALSE, guestId |-> 0, guestMessageId |-> 0]

(***************************************************************************)
(* handlers/guest.js: handleGuestMessage and its helpers.                  *)
(***************************************************************************)
NoRelay == <<0, 0>>

\* A handler at the moment the update is dispatched to handleGuestMessage.
newHandler(g, m, msg) ==
    [g |-> g, m |-> m, msg |-> msg, pc |-> "start", blocked |-> FALSE,
     t |-> 0, win |-> NoWindow, trusted |-> FALSE, verdict |-> NULL,
     read |-> 0, relay |-> NoRelay, fwd |-> NoFwd, reply |-> "",
     resolved |-> NoResolve, trace |-> <<>>]

NoMessage == [text |-> "", caption |-> "", photo |-> FALSE, sticker |-> NoMedia]
Idle == [newHandler(0, 0, NoMessage) EXCEPT !.pc = "idle"]
Slots == 1..MaxInFlight

\* const text = message.text || ""
textOf(msg) == msg.text

\* const textContent = message.text || message.caption
textContent(msg) == IF msg.text # "" THEN msg.text ELSE msg.caption

\* text.startsWith("/appeal")
isAppeal(text) == text = "/appeal"

\* A handler that forgets the blocked notice.
routeIgnoringBlock(text, isBlocked) ==
    IF text = "/lang" THEN [pc |-> "done", reply |-> "lang_select_prompt"]
    ELSE IF isAppeal(text)
         THEN IF ~isBlocked THEN [pc |-> "done", reply |-> "guest_not_blocked"]
              ELSE [pc |-> "appealInfo", reply |-> ""]
    ELSE IF text = "/start" THEN [pc |-> "done", reply |-> "guest_welcome"]
    ELSE [pc |-> "rateRead", reply |-> ""]

\* The branch taken once the block status is known: commands first, then the
\* blocked notice, then /start, otherwise on to the rate limiter.
routeAfterBlockCheck(text, isBlocked) ==
    IF text = "/lang" THEN [pc |-> "done", reply |-> "lang_select_prompt"]
    ELSE IF isAppeal(text)
         THEN IF ~isBlocked THEN [pc |-> "done", reply |-> "guest_not_blocked"]
              ELSE [pc |-> "appealInfo", reply |-> ""]
    ELSE IF isBlocked THEN [pc |-> "done", reply |-> "guest_blocked"]
    ELSE IF text = "/start" THEN [pc |-> "done", reply |-> "guest_welcome"]
    ELSE [pc |-> "rateRead", reply |-> ""]

\* if (ENABLE_FILTER && ENV_GEMINI_API_KEY)
filterActive(key) == ENABLE_FILTER /\ key

\* The stage of checkMessageContent that follows the text stage (from = "text")
\* or the photo stage (from = "photo"); "safe" is its return null.
mediaStage(msg, from) ==
    IF from = "text" /\ msg.photo THEN "photo"
    ELSE IF msg.sticker # NoMedia THEN "sticker"
    ELSE "safe"

\* A handler that rewards every verdict with trust.
afterModerationAlwaysTrust(result) == "trustRead"

\* A handler that treats no verdict as unsafe.
afterModerationFailClosed(result) == "countRead"

\* if (filterResult) return handleUnsafeContent(...); else incrementTrustScore
afterModeration(result) == IF result # NULL THEN "countRead" ELSE "trustRead"

stageOrVerdict(msg, from) ==
    IF mediaStage(msg, from) = "safe" THEN afterModeration(NULL)
    ELSE mediaStage(msg, from)

\* A handler that checks the content of trusted guests as well.
afterTrustCheckModerating(trusted, msg) ==
    IF textContent(msg) # "" THEN "cacheRead"
    ELSE stageOrVerdict(msg, "text")

\* checkMessageContent as a function of the message, the cache and the
\* answers the external checks would give: ans.text is the answer of
\* checkContentSafety, ans.urlOk whether getFile yields a URL, ans.image the
\* answer of checkImageSafety.
Answers == [text : {NULL, Violation}, urlOk : BOOLEAN, image : {NULL, Violation}]

checkImageContent(msg, ans) ==
    LET photo == IF msg.photo /\ ans.urlOk THEN ans.image ELSE NULL
        sticker == IF msg.sticker = "static" /\ ans.urlOk THEN ans.image
                   ELSE NULL
    IN IF photo # NULL THEN photo ELSE sticker

checkMessageContent(msg, kvCache, ans) ==
    LET cached == getCachedModerationResult(kvCache, textContent(msg)) IN
    IF textContent(msg) # "" /\ cached.hit THEN cached.result
    ELSE IF textContent(msg) # "" /\ ans.text # NULL THEN ans.text
    ELSE checkImageContent(msg, ans)

\* A handler that counts the message of a trusted guest as one more pass.
afterTrustCheckRewarding(trusted, msg) ==
    IF trusted THEN "trustRead"
    ELSE IF textContent(msg) # "" THEN "cacheRead"
    ELSE stageOrVerdict(msg, "text")

\* if (trusted) skip the check; else checkMessageContent, which starts with
\* the text stage when there is text or a caption.
afterTrustCheck(trusted, msg) ==
    IF trusted THEN "create"
    ELSE IF textContent(msg) # "" THEN "cacheRead"
    ELSE stageOrVerdict(msg, "text")

\* A block reason without the filter's prefix.
aiReasonBare(result) == result

\* `AI Filter: ${filterResult}`
aiReason(result) == "AI Filter: " \o result

\* if (fwd.ok) await linkAdminMessage(kv, fwd.result.message_id, relay.id)
shouldLinkAlways(fwd) == TRUE
shouldLink(fwd) == fwd.ok
linkArgsGuestMessageId(h) == [a |-> h.m, rid |-> h.relay]
linkArgs(h) == [a |-> h.fwd.id, rid |-> h.relay]

\* createRelay(kv, guestId, message): the arguments the handler passes.
relayArgsChatId(h) == [g |-> h.g, m |-> h.g, preview |-> textContent(h.msg)]
relayArgs(h) == [g |-> h.g, m |-> h.m, preview |-> textContent(h.msg)]

Upd(i, h) == hs' = [hs EXCEPT ![i] = h]
Did(h, tag) == Append(h.trace, tag)
\* A worker is free when it handles nothing or its handler has returned; its
\* record is kept until the next update takes the slot.
Free(i) == hs[i].pc \in {"idle", "done", "escaped"}
FreeSlot(i) == Free(i) /\ \A j \in 1..(i - 1) : ~Free(j)

\* Message ids of a chat grow by one per message; an update can be delivered
\* again, with the same guest, message id and content.
LastMsgId(g) == Cardinality({k \in DOMAIN sent : k[1] = g})

\* An update with a guest message arrives and handleGuestMessage starts.
Deliver(i, g, m, msg) ==
    /\ updates < MaxUpdates
    /\ FreeSlot(i)
    /\ m <= LastMsgId(g) + 1
    /\ Has(sent, <<g, m>>) => sent[<<g, m>>] = msg
    /\ sent' = Put(sent, <<g, m>>, msg)
    /\ updates' = updates + 1
    /\ Upd(i, newHandler(g, m, msg))
    /\ UNCHANGED <<store, setting, fwdLog, nextAdminId, tally>>

\* const blocked = await isGuestBlocked(kv, guestId), then the command and
\* blocked branches.
CheckBlocked(i) ==
    LET h == hs[i]
        b == isGuestBlocked(blocked, h.g)
        r == routeAfterBlockCheck(textOf(h.msg), b)
    IN /\ h.pc = "start"
       /\ Upd(i, [h EXCEPT !.blocked = b, !.pc = r.pc, !.reply = r.reply,
                           !.trace = Did(h, "isGuestBlocked")])
       /\ UNCHANGED <<store, setting, fwdLog, nextAdminId, feed, tally>>

\* handleAppealCommand: getBlockInfo
AppealInfo(i) ==
    LET h == hs[i] IN
    /\ h.pc = "appealInfo"
    /\ Upd(i, [h EXCEPT !.pc = "appealSend", !.trace = Did(h, "getBlockInfo")])
    /\ UNCHANGED <<store, setting, fwdLog, nextAdminId, feed, tally>>

\* handleAppealCommand: the appeal is sent to the admin, the replied-to
\* message (when there is one) is forwarded without a relay, and the guest
\* is told.
AppealSend(i, attached) ==
    LET h == hs[i] IN
    /\ h.pc = "appealSend"
    /\ nextAdminId' = nextAdminId + (IF attached THEN 2 ELSE 1)
    /\ Upd(i, [h EXCEPT !.pc = "done", !.reply = "guest_appeal_submitted",
                        !.trace = Did(h, "appeal")])
    /\ UNCHANGED <<store, setting, fwdLog, feed, tally>>

\* checkRateLimit: the read of the window.
RateRead(i) ==
    LET h == hs[i] IN
    /\ h.pc = "rateRead"
    /\ Upd(i, [h EXCEPT !.pc = "rateWrite", !.t = now,
                        !.win = loadRateWindow(rate, h.g),
                        !.trace = Did(h, "rateRead")])
    /\ UNCHANGED <<store, setting, fwdLog, nextAdminId, feed, tally>>

\* checkRateLimit: the decision and the write; then if (!rateLimit.allowed).
RateWrite(i) ==
    LET h == hs[i]
        d == decideRateLimit(h.win, h.t)
    IN /\ h.pc = "rateWrite"
       /\ IF d.allowed
          THEN /\ rate' = Put(rate, h.g, d.window)
               /\ Upd(i, [h EXCEPT !.win = NoWindow,
                              !.pc = IF filterActive(geminiKey) THEN "trust"
                                     ELSE "create",
                              !.trace = Did(h, "rateAllowed")])
          ELSE /\ rate' = rate
               /\ Upd(i, [h EXCEPT !.win = NoWindow, !.pc = "done",
                              !.reply = "guest_rate_limited",
                              !.trace = Did(h, "rateDenied")])
       /\ allowed' = IF d.allowed THEN [allowed EXCEPT ![h.g] = @ + 1]
                     ELSE allowed
       /\ UNCHANGED <<blocked, trust, cache, counter, relays, links, setting,
                      fwdLog, nextAdminId, feed, passed, seq, scored>>

\* const trusted = await isUserTrusted(kv, guestId)
CheckTrusted(i) ==
    LET h == hs[i]
        tr == isUserTrusted(trust, h.g)
    IN /\ h.pc = "trust"
       /\ Upd(i, [h EXCEPT !.trusted = tr,
                      !.pc = afterTrustCheck(tr, h.msg),
                      !.trace = Did(h, "isUserTrusted")])
       /\ UNCHANGED <<store, setting, fwdLog, nextAdminId, feed, tally>>

\* checkMessageContent: getCachedModerationResult; a hit returns cached.result
CacheRead(i) ==
    LET h == hs[i]
        c == getCachedModerationResult(cache, textContent(h.msg))
    IN /\ h.pc = "cacheRead"
       /\ Upd(i, [h EXCEPT !.verdict = c.result,
                      !.pc = IF c.hit THEN afterModeration(c.result)
                             ELSE "modText",
                      !.trace = Did(h, IF c.hit THEN "cacheHit"
                                       ELSE "cacheMiss")])
       /\ UNCHANGED <<store, setting, fwdLog, nextAdminId, feed, tally>>

\* checkMessageContent: checkContentSafety (the external call, which touches
\* no shared state) and cacheModerationResult, then if (result) return result
ModerateText(i, result) ==
    LET h == hs[i] IN
    /\ h.pc = "modText"
    /\ cache' = cacheModerationResult(cache, textContent(h.msg), result)
    /\ Upd(i, [h EXCEPT !.verdict = result,
                   !.pc = IF result # NULL THEN afterModeration(result)
                          ELSE stageOrVerdict(h.msg, "text"),
                   !.trace = h.trace \o <<"checkContentSafety",
                                          "cacheModerationResult">>])
    /\ scored' = [scored EXCEPT ![textContent(h.msg)] = @ + 1]
    /\ UNCHANGED <<blocked, rate, trust, counter, relays, links, setting,
                   fwdLog, nextAdminId, feed, allowed, passed, seq>>

\* checkMessageContent: the photo stage.  getImageUrl yields a URL only when
\* getFile answers ok; with a URL, checkImageSafety is called.
CheckPhoto(i, urlOk, result) ==
    LET h == hs[i] IN
    /\ h.pc = "photo"
    /\ ~urlOk => result = NULL
    /\ Upd(i, [h EXCEPT !.verdict = result,
                   !.pc = IF result # NULL THEN afterModeration(result)
                          ELSE stageOrVerdict(h.msg, "photo"),
                   !.trace = Did(h, IF urlOk THEN "checkImageSafety"
                                    ELSE "noFileUrl")])
    /\ UNCHANGED <<store, setting, fwdLog, nextAdminId, feed, tally>>

\* checkMessageContent: the sticker stage.  Animated and video stickers are
\* skipped without a getFile call.
CheckSticker(i, urlOk, result) ==
    LET h == hs[i] IN
    /\ h.pc = "sticker"
    /\ h.msg.sticker = "animated" => ~urlOk
    /\ ~urlOk => result = NULL
    /\ Upd(i, [h EXCEPT !.verdict = result,
                   !.pc = afterModeration(result),
                   !.trace = Did(h, IF urlOk THEN "checkImageSafety"
                                    ELSE "noFileUrl")])
    /\ UNCHANGED <<store, setting, fwdLog, nextAdminId, feed, tally>>

\* handleUnsafeContent: incrementCounter(kv, "ai-blocks"), the read
CounterRead(i) ==
    LET h == hs[i] IN
    /\ h.pc = "countRead"
    /\ Upd(i, [h EXCEPT !.read = counter, !.pc = "countWrite",
                        !.trace = Did(h, "counterRead")])
    /\ UNCHANGED <<store, setting, fwdLog, nextAdminId, feed, tally>>

\* handleUnsafeContent: incrementCounter(kv, "ai-blocks"), the write
CounterWrite(i) ==
    LET h == hs[i] IN
    /\ h.pc = "countWrite"
    /\ counter' = h.read + 1
    /\ Upd(i, [h EXCEPT !.read = 0, !.pc = "block",
                        !.trace = Did(h, "incrementCounter")])
    /\ UNCHANGED <<blocked, rate, trust, cache, relays, links, setting,
                   fwdLog, nextAdminId, feed, tally>>

\* An auto-block that also resets the guest's trust.
BlockUnsafeResettingTrust(i) ==
    LET h == hs[i] IN
    /\ h.pc = "block"
    /\ blocked' = IF AUTO_BLOCK
                  THEN setGuestBlocked(blocked, h.g, TRUE, aiReason(h.verdict), now)
                  ELSE blocked
    /\ trust' = Put(trust, h.g, 0)
    /\ Upd(i, [h EXCEPT !.pc = "done", !.reply = "guest_message_blocked",
                        !.trace = Did(h, "setGuestBlocked")])
    /\ UNCHANGED <<rate, cache, counter, relays, links, setting,
                   fwdLog, nextAdminId, feed, tally>>

\* handleUnsafeContent: if (AUTO_BLOCK) setGuestBlocked(...), then the
\* notice to the guest.
BlockUnsafe(i) ==
    LET h == hs[i] IN
    /\ h.pc = "block"
    /\ blocked' = IF AUTO_BLOCK
                  THEN setGuestBlocked(blocked, h.g, TRUE, aiReason(h.verdict), now)
                  ELSE blocked
    /\ Upd(i, [h EXCEPT !.pc = "done", !.reply = "guest_message_blocked",
                        !.trace = Did(h, "setGuestBlocked")])
    /\ UNCHANGED <<rate, trust, cache, counter, relays, links, setting,
                   fwdLog, nextAdminId, feed, tally>>

\* incrementTrustScore(kv, guestId), the read
TrustRead(i) ==
    LET h == hs[i] IN
    /\ h.pc = "trustRead"
    /\ Upd(i, [h EXCEPT !.read = Get(trust, h.g, 0), !.pc = "trustWrite",
                        !.trace = Did(h, "trustRead")])
    /\ UNCHANGED <<store, setting, fwdLog, nextAdminId, feed, tally>>

\* incrementTrustScore(kv, guestId), the write
TrustWrite(i) ==
    LET h == hs[i] IN
    /\ h.pc = "trustWrite"
    /\ trust' = Put(trust, h.g, h.read + 1)
    /\ Upd(i, [h EXCEPT !.read = 0, !.pc = "create",
                        !.trace = Did(h, "incrementTrustScore")])
    /\ passed' = IF h.verdict = NULL THEN [passed EXCEPT ![h.g] = @ + 1]
                 ELSE passed
    /\ UNCHANGED <<blocked, rate, cache, counter, relays, links, setting,
                   fwdLog, nextAdminId, feed, allowed, seq, scored>>

\* const relay = await createRelay(kv, guestId, message)
CreateRelay(i) ==
    LET h == hs[i]
        args == relayArgs(h)
    IN /\ h.pc = "create"
       /\ relays' = createRelay(relays, args.g, args.m, args.preview)
       /\ Upd(i, [h EXCEPT !.relay = relayId(args.g, args.m), !.pc = "forward",
                           !.trace = Did(h, "createRelay")])
       /\ UNCHANGED <<blocked, rate, trust, cache, counter, links, setting,
                      fwdLog, nextAdminId, feed, tally>>

\* const fwd = await telegram.forwardMessage(...): on success the admin chat
\* holds a new message, the forwarded copy.
ForwardMessage(i, ok) ==
    LET h == hs[i]
        fwd == IF ok THEN [ok |-> TRUE, id |-> nextAdminId] ELSE NoFwd
    IN /\ h.pc = "forward"
       /\ nextAdminId' = IF ok THEN nextAdminId + 1 ELSE nextAdminId
       /\ fwdLog' = IF ok THEN Put(fwdLog, nextAdminId, <<h.g, h.m>>) ELSE fwdLog
       /\ Upd(i, [h EXCEPT !.fwd = fwd,
                      !.pc = IF shouldLink(fwd) THEN "link" ELSE "done",
                      !.trace = Did(h, IF ok THEN "forwardOk" ELSE "forwardFailed")])
       /\ UNCHANGED <<store, setting, feed, tally>>

\* await linkAdminMessage(kv, fwd.result.message_id, relay.id)
LinkAdminMessage(i) ==
    LET h == hs[i]
        args == linkArgs(h)
    IN /\ h.pc = "link"
       /\ links' = linkAdminMessage(links, args.a, args.rid)
       /\ Upd(i, [h EXCEPT !.pc = "done", !.trace = Did(h, "linkAdminMessage")])
       /\ UNCHANGED <<blocked, rate, trust, cache, counter, relays, setting,
                      fwdLog, nextAdminId, feed, tally>>

(***************************************************************************)
(* Failures.  A store, moderation or messaging call can throw.  The calls  *)
(* awaited inside the try block of handleGuestMessage throw into its catch *)
(* block; the calls made inside a promise that handleGuestMessage returns  *)
(* without awaiting it (return handleAppealCommand(...), return            *)
(* handleUnsafeContent(...), return sendToGuest(...)) have left the try    *)
(* block when they throw, and the rejection settles the promise of         *)
(* handleGuestMessage itself.                                              *)
(***************************************************************************)
CallPcs ==
    {"start", "appealInfo", "appealSend", "rateRead", "rateWrite", "trust",
     "cacheRead", "modText", "photo", "sticker", "countRead", "countWrite",
     "block", "trustRead", "trustWrite", "create", "forward", "link"}
ReturnedPcs == {"appealInfo", "appealSend", "countRead", "countWrite", "block"}
ThrowTag(pc) == "throw@" \o pc

\* A handler that tries the forward again after it threw once.
afterThrowRetryForward(h) ==
    IF h.pc = "forward" /\ \A k \in 1..Len(h.trace) : h.trace[k] # ThrowTag("forward")
    THEN "forward"
    ELSE IF h.pc \in ReturnedPcs THEN "escaped" ELSE "caught"

\* Where a throw of the call made at h.pc takes the handler.
afterThrow(h) == IF h.pc \in ReturnedPcs THEN "escaped" ELSE "caught"

\* The store or service call the handler is about to make throws: nothing is
\* written.
Throws(i) ==
    LET h == hs[i] IN
    /\ h.pc \in CallPcs
    /\ Upd(i, [h EXCEPT !.pc = afterThrow(h), !.win = NoWindow, !.read = 0,
                        !.trace = Did(h, ThrowTag(h.pc))])
    /\ UNCHANGED <<store, setting, fwdLog, nextAdminId, feed, tally>>

\* The calls of the step succeed and the reply to the guest that ends the
\* branch, return sendToGuest(...), throws.
ReplyThrows(i) ==
    LET h == hs[i]
        b == isGuestBlocked(blocked, h.g)
        gone(tag) == [h EXCEPT !.pc = "escaped", !.win = NoWindow,
                               !.trace = h.trace \o <<tag, ThrowTag("reply")>>]
    IN \/ /\ h.pc = "start"
          /\ routeAfterBlockCheck(textOf(h.msg), b).pc = "done"
          /\ Upd(i, [gone("isGuestBlocked") EXCEPT !.blocked = b])
          /\ UNCHANGED <<store, setting, fwdLog, nextAdminId, feed, tally>>
       \/ /\ h.pc = "rateWrite"
          /\ ~decideRateLimit(h.win, h.t).allowed
          /\ Upd(i, gone("rateDenied"))
          /\ UNCHANGED <<store, setting, fwdLog, nextAdminId, feed, tally>>
       \/ /\ h.pc = "block"
          /\ blocked' = IF AUTO_BLOCK
                        THEN setGuestBlocked(blocked, h.g, TRUE,
                                             aiReason(h.verdict), now)
                        ELSE blocked
          /\ Upd(i, gone("setGuestBlocked"))
          /\ UNCHANGED <<rate, trust, cache, counter, relays, links, setting,
                         fwdLog, nextAdminId, feed, tally>>
       \/ /\ h.pc = "appealSend"
          /\ \E attached \in BOOLEAN :
                nextAdminId' = nextAdminId + (IF attached THEN 2 ELSE 1)
          /\ Upd(i, gone("appeal"))
          /\ UNCHANGED <<store, setting, fwdLog, feed, tally>>

\* The catch block: getLang and the generic notice to the guest, inside a try
\* of its own whose catch is empty.
Notify(i, ok) ==
    LET h == hs[i] IN
    /\ h.pc = "caught"
    /\ Upd(i, [h EXCEPT !.pc = "done",
                        !.reply = IF ok THEN "guest_error" ELSE "",
                        !.trace = Did(h, IF ok THEN "notified" ELSE "notifyFailed")])
    /\ UNCHANGED <<store, setting, fwdLog, nextAdminId, feed, tally>>

(***************************************************************************)
(* The admin side and the environment.                                     *)
(***************************************************************************)
\* An update with a reply of the admin to message a of the admin chat:
\* resolveRelay(a) decides where the reply goes.
AdminReply(i, a) ==
    /\ updates < MaxUpdates
    /\ FreeSlot(i)
    /\ updates' = updates + 1
    /\ Upd(i, [Idle EXCEPT !.pc = "done",
                           !.resolved = resolveRelay(links, relays, a),
                           !.trace = <<"resolveRelay">>])
    /\ UNCHANGED <<store, setting, fwdLog, nextAdminId, sent, tally>>

\* An update with /block or /unblock of the admin for guest g.
AdminSetBlocked(g, b) ==
    /\ updates < MaxUpdates
    /\ updates' = updates + 1
    /\ blocked' = setGuestBlocked(blocked, g, b, "admin", now)
    /\ UNCHANGED <<rate, trust, cache, counter, relays, links, setting, hs,
                   fwdLog, nextAdminId, sent, tally>>

\* The store as earlier traffic left it: a veteran guest is one request
\* short of the rate limit in the current window and one pass short of the
\* trust threshold; the other guests were never seen.
earlierTraffic(veterans) ==
    /\ rate = [g \in veterans |->
                 [count |-> RATE_LIMIT_MAX_REQUESTS - 1, windowStart |-> 0]]
    /\ trust = [g \in veterans |-> TRUST_THRESHOLD - 1]
    /\ allowed = [g \in Guests |->
                    IF g \in veterans THEN RATE_LIMIT_MAX_REQUESTS - 1 ELSE 0]
    /\ passed = [g \in Guests |-> IF g \in veterans THEN TRUST_THRESHOLD - 1 ELSE 0]

Quiet ==
    /\ blocked = EmptyStore
    /\ cache = EmptyStore
    /\ counter = 0
    /\ relays = EmptyStore
    /\ links = EmptyStore
    /\ now = 0
    /\ hs = [i \in Slots |-> Idle]
    /\ fwdLog = EmptyStore
    /\ nextAdminId = 1
    /\ updates = 0
    /\ sent = EmptyStore
    /\ scored = [t \in Texts |-> 0]

NoCall == [kind |-> "none", g |-> 0, t |-> 0, nth |-> 0, allowed |-> FALSE,
           resetIn |-> 0, before |-> EmptyStore, trusted |-> FALSE,
           flag |-> FALSE, reason |-> "", found |-> FALSE, fp |-> "",
           hit |-> FALSE, result |-> NULL]
\* What the caller has asked for so far: per guest the reason of the block in
\* force ("" when none), the guests ever blocked, and per fingerprint the
\* verdict last cached (Uncached when none).
Uncached == "uncached"
SeqStart == [calls |-> [g \in Guests |-> 0], start |-> [g \in Guests |-> -1],
             incs |-> [g \in Guests |-> 0], advances |-> 0, last |-> NoCall,
             blocks |-> [g \in Guests |-> ""], ever |-> {},
             cached |-> [fp \in Texts |-> Uncached]]

Init ==
    /\ earlierTraffic(Veterans)
    /\ Quiet
    /\ geminiKey \in BOOLEAN
    /\ seq = SeqStart

(***************************************************************************)
(* The storage operations called one at a time by a single caller, on a     *)
(* store that has seen no traffic.  seq records, per guest, the calls made  *)
(* in the window that began with the guest's first call or with the first   *)
(* call made a whole window after that window had begun.                    *)
(***************************************************************************)
AdvanceSteps == {1, 1000, RATE_LIMIT_WINDOW_MS - 1}

Advance(d) ==
    /\ seq.advances < MaxAdvances
    /\ now' = now + d
    /\ seq' = [seq EXCEPT !.advances = @ + 1, !.last = NoCall]
    /\ UNCHANGED <<store, geminiKey, hs, fwdLog, nextAdminId, feed, allowed,
                   passed, scored>>

\* checkRateLimit(kv, guestId), the read and the write with nothing between.
CallCheckRateLimit(g) ==
    LET d == decideRateLimit(loadRateWindow(rate, g), now)
        fresh == seq.start[g] < 0 \/ now - seq.start[g] >= 60000
        nth == IF fresh THEN 1 ELSE seq.calls[g] + 1
    IN /\ nth <= MaxCalls
       /\ rate' = IF d.allowed THEN Put(rate, g, d.window) ELSE rate
       /\ seq' = [seq EXCEPT !.calls[g] = nth,
                             !.start[g] = IF fresh THEN now ELSE @,
                             !.last = [kind |-> "checkRateLimit", g |-> g,
                                       t |-> now, nth |-> nth,
                                       allowed |-> d.allowed,
                                       resetIn |-> d.resetIn, before |-> rate,
                                       trusted |-> FALSE]]
       /\ UNCHANGED <<blocked, trust, cache, counter, relays, links, setting,
                      hs, fwdLog, nextAdminId, feed, allowed, passed, scored>>

\* incrementTrustScore(kv, guestId), the read and the write with nothing
\* between.
CallIncrementTrust(g) ==
    /\ seq.incs[g] < MaxIncrements
    /\ trust' = Put(trust, g, Get(trust, g, 0) + 1)
    /\ seq' = [seq EXCEPT !.incs[g] = @ + 1,
                          !.last = [NoCall EXCEPT !.kind = "incrementTrustScore",
                                                  !.g = g]]
    /\ UNCHANGED <<blocked, rate, cache, counter, relays, links, setting, hs,
                   fwdLog, nextAdminId, feed, allowed, passed, scored>>

\* isUserTrusted(kv, guestId)
CallIsTrusted(g) ==
    /\ seq' = [seq EXCEPT !.last = [NoCall EXCEPT !.kind = "isUserTrusted",
                                                  !.g = g,
                                                  !.trusted = isUserTrusted(trust, g)]]
    /\ UNCHANGED <<store, setting, hs, fwdLog, nextAdminId, feed, allowed,
                   passed, scored>>

Reasons == {"admin", aiReason(Violation)}
Verdicts == {NULL, Violation}

\* setGuestBlocked(kv, guestId, blocked, reason)
CallSetBlocked(g, b, reason) ==
    /\ blocked' = setGuestBlocked(blocked, g, b, reason, now)
    /\ seq' = [seq EXCEPT !.blocks[g] = IF b THEN reason ELSE "",
                          !.ever = IF b THEN @ \cup {g} ELSE @,
                          !.last = [NoCall EXCEPT !.kind = "setGuestBlocked",
                                                  !.g = g, !.flag = b,
                                                  !.reason = reason,
                                                  !.before = blocked]]
    /\ UNCHANGED <<rate, trust, cache, counter, relays, links, setting, hs,
                   fwdLog, nextAdminId, feed, allowed, passed, scored>>

\* isGuestBlocked(kv, guestId) and getBlockInfo(kv, guestId)
CallGetBlockInfo(g) ==
    LET info == getBlockInfo(blocked, g) IN
    /\ seq' = [seq EXCEPT !.last = [NoCall EXCEPT !.kind = "getBlockInfo",
                                                  !.g = g,
                                                  !.flag = isGuestBlocked(blocked, g),
                                                  !.found = info.found,
                                                  !.reason = info.reason]]
    /\ UNCHANGED <<store, setting, hs, fwdLog, nextAdminId, feed, allowed,
                   passed, scored>>

\* cacheModerationResult(kv, text, result)
CallPutCached(fp, v) ==
    /\ cache' = cacheModerationResult(cache, fp, v)
    /\ seq' = [seq EXCEPT !.cached[fp] = v,
                          !.last = [NoCall EXCEPT !.kind = "cacheModerationResult",
                                                  !.fp = fp, !.result = v,
                                                  !.before = cache]]
    /\ UNCHANGED <<blocked, rate, trust, counter, relays, links, setting, hs,
                   fwdLog, nextAdminId, feed, allowed, passed, scored>>

\* getCachedModerationResult(kv, text)
CallGetCached(fp) ==
    LET c == getCachedModerationResult(cache, fp) IN
    /\ seq' = [seq EXCEPT !.last = [NoCall EXCEPT !.kind = "getCachedModerationResult",
                                                  !.fp = fp, !.hit = c.hit,
                                                  !.result = c.result]]
    /\ UNCHANGED <<store, setting, hs, fwdLog, nextAdminId, feed, allowed,
                   passed, scored>>

InitFresh ==
    /\ earlierTraffic({})
    /\ Quiet
    /\ geminiKey = TRUE
    /\ seq = SeqStart

NextRate ==
    \/ \E g \in Guests : CallCheckRateLimit(g)
    \/ \E d \in AdvanceSteps : Advance(d)

SpecRate == InitFresh /\ [][NextRate]_vars

NextTrust ==
    \/ \E g \in Guests : CallIncrementTrust(g)
    \/ \E g \in Guests : CallIsTrusted(g)

SpecTrust == InitFresh /\ [][NextTrust]_vars

NextState ==
    \/ \E g \in Guests, b \in BOOLEAN, reason \in Reasons :
          CallSetBlocked(g, b, reason)
    \/ \E g \in Guests : CallGetBlockInfo(g)
    \/ \E fp \in Texts, v \in Verdicts : CallPutCached(fp, v)
    \/ \E fp \in Texts : CallGetCached(fp)

SpecState == InitFresh /\ [][NextState]_vars

HandlerStep(i) ==
    \/ CheckBlocked(i)
    \/ AppealInfo(i)
    \/ \E attached \in BOOLEAN : AppealSend(i, attached)
    \/ RateRead(i)
    \/ RateWrite(i)
    \/ CheckTrusted(i)
    \/ CacheRead(i)
    \/ \E result \in {NULL, Violation} : ModerateText(i, result)
    \/ CounterRead(i)
    \/ CounterWrite(i)
    \/ BlockUnsafe(i)
    \/ TrustRead(i)
    \/ TrustWrite(i)
    \/ CreateRelay(i)
    \/ \E ok \in BOOLEAN : ForwardMessage(i, ok)
    \/ LinkAdminMessage(i)

\* The messages of one guest, of every shape, handled one at a time, with
\* calls that can throw.
NextPipeline ==
    \/ \E g \in Veterans, m \in MsgIds, msg \in Shapes : Deliver(1, g, m, msg)
    \/ \E i \in {1} :
          \/ HandlerStep(i)
          \/ \E urlOk \in BOOLEAN, result \in Verdicts :
                CheckPhoto(i, urlOk, result)
          \/ \E urlOk \in BOOLEAN, result \in Verdicts :
                CheckSticker(i, urlOk, result)
          \/ Throws(i)
          \/ ReplyThrows(i)
          \/ \E ok \in BOOLEAN : Notify(i, ok)

\* The veteran is two requests short of the rate limit and one pass short of
\* the trust threshold, so that a message of a trusted guest is met before
\* the limit is.
InitPipeline ==
    /\ rate = [g \in Veterans |->
                 [count |-> RATE_LIMIT_MAX_REQUESTS - 2, windowStart |-> 0]]
    /\ trust = [g \in Veterans |-> TRUST_THRESHOLD - 1]
    /\ allowed = [g \in Guests |->
                    IF g \in Veterans THEN RATE_LIMIT_MAX_REQUESTS - 2 ELSE 0]
    /\ passed = [g \in Guests |-> IF g \in Veterans THEN TRUST_THRESHOLD - 1 ELSE 0]
    /\ Quiet
    /\ geminiKey \in BOOLEAN
    /\ seq = SeqStart

SpecPipeline == InitPipeline /\ [][NextPipeline]_vars

Next ==
    \/ \E i \in Slots, g \in Guests, m \in MsgIds, msg \in TextShapes :
          Deliver(i, g, m, msg)
    \/ \E i \in Slots : HandlerStep(i)
    \/ \E i \in Slots, a \in 1..nextAdminId : AdminReply(i, a)
    \/ \E g \in Guests, b \in BOOLEAN : AdminSetBlocked(g, b)

Spec == Init /\ [][Next]_vars


(***************************************************************************)
(* Properties.                                                             *)
(***************************************************************************)
InTrace(h, tag) == \E k \in 1..Len(h.trace) : h.trace[k] = tag
Before(h, tag1, tag2) ==
    \E k \in 1..(Len(h.trace) - 1) : h.trace[k] = tag1 /\ h.trace[k + 1] = tag2
IsReply(h) == InTrace(h, "resolveRelay")

\* C1: relay round trip.  Every admin message id that was linked resolves to
\* the relay record of the very guest message whose forwarded copy it is,
\* whatever else was created and linked around it; so every admin reply that
\* resolved was routed to the guest and message the admin replied to.
RelayRoundTrip ==
    /\ \A a \in DOMAIN links :
          /\ a \in DOMAIN fwdLog
          /\ resolveRelay(links, relays, a) =
                [a |-> a, found |-> TRUE, guestId |-> fwdLog[a][1],
                 guestMessageId |-> fwdLog[a][2]]
    /\ \A i \in Slots :
          hs[i].resolved.found =>
             /\ hs[i].resolved.a \in DOMAIN fwdLog
             /\ <<hs[i].resolved.guestId, hs[i].resolved.guestMessageId>> =
                   fwdLog[hs[i].resolved.a]

\* C1 witness: an admin reply resolved to guest 2 while forwarded copies of
\* two different guests' messages are linked.
RelayRoundTripWitness ==
    /\ \E i \in Slots : hs[i].resolved.found /\ hs[i].resolved.guestId = 2
    /\ \E a, b \in DOMAIN links : links[a][1] # links[b][1]

\* C2: a message handled for a guest read as blocked touches neither the rate
\* limiter, nor the trust score, nor the moderation cache or service, nor the
\* relay registry, and is not forwarded; it is answered with the blocked
\* notice unless it is /lang or /appeal.
BlockedEffects ==
    {"rateRead", "rateAllowed", "rateDenied", "isUserTrusted", "cacheHit",
     "cacheMiss", "checkContentSafety", "cacheModerationResult",
     "checkImageSafety", "noFileUrl", "counterRead", "incrementCounter",
     "setGuestBlocked", "trustRead", "incrementTrustScore", "createRelay",
     "forwardOk", "forwardFailed", "linkAdminMessage"}

BlockEnforced ==
    \A i \in Slots :
       hs[i].blocked =>
          /\ \A k \in 1..Len(hs[i].trace) : hs[i].trace[k] \notin BlockedEffects
          /\ hs[i].relay = NoRelay /\ ~hs[i].fwd.ok
          /\ hs[i].pc = "done" =>
                hs[i].reply = (IF textOf(hs[i].msg) = "/lang" THEN "lang_select_prompt"
                               ELSE IF textOf(hs[i].msg) = "/appeal"
                                    THEN "guest_appeal_submitted"
                               ELSE "guest_blocked")

\* C2 witness: a text message and a /start of a blocked guest were both
\* answered with the blocked notice.
BlockEnforcedWitness ==
    \E i, j \in Slots :
       /\ hs[i].blocked /\ hs[i].pc = "done" /\ hs[i].msg.text \in Texts
       /\ hs[j].blocked /\ hs[j].pc = "done" /\ hs[j].msg.text = "/start"
       /\ hs[i].reply = "guest_blocked" /\ hs[j].reply = "guest_blocked"

\* C3 (the claim as stated): no message of a guest is forwarded to the admin
\* while a block of that guest is in the store, in any interleaving.
NoForwardWhileBlocked ==
    [][\A i \in Slots :
          (hs[i].pc = "forward" /\ hs'[i].pc # "forward")
             => ~isGuestBlocked(blocked, hs[i].g)]_vars

\* C4: two-phase linkage.  forwardMessage is invoked only after createRelay
\* has stored the record; linkAdminMessage is invoked only right after a
\* forward that returned ok, with the admin message id it returned and the
\* id of the record just created; after a forward that failed the handler
\* ends without linking.
TwoPhaseLinkage ==
    \A i \in Slots :
       LET h == hs[i] IN
       /\ (InTrace(h, "forwardOk") \/ InTrace(h, "forwardFailed") \/ h.pc = "forward")
             => /\ InTrace(h, "createRelay")
                /\ h.relay = relayId(h.g, h.m)
                /\ Has(relays, h.relay)
       /\ InTrace(h, "forwardOk") => Before(h, "createRelay", "forwardOk")
       /\ InTrace(h, "forwardFailed") =>
             /\ Before(h, "createRelay", "forwardFailed")
             /\ h.pc = "done"
             /\ ~InTrace(h, "linkAdminMessage")
       /\ (InTrace(h, "linkAdminMessage") \/ h.pc = "link") =>
             /\ InTrace(h, "forwardOk")
             /\ h.fwd.ok
             /\ Has(fwdLog, h.fwd.id) /\ fwdLog[h.fwd.id] = <<h.g, h.m>>
       /\ InTrace(h, "linkAdminMessage") =>
             /\ Before(h, "forwardOk", "linkAdminMessage")
             /\ Has(links, h.fwd.id) /\ links[h.fwd.id] = relayId(h.g, h.m)

\* C4 witness: one handler linked after a successful forward, another ended
\* after a failed forward.
TwoPhaseLinkageWitness ==
    \E i, j \in Slots :
       /\ hs[i].pc = "done" /\ InTrace(hs[i], "linkAdminMessage")
       /\ hs[j].pc = "done" /\ InTrace(hs[j], "forwardFailed")

\* C5: an admin message id that is not the forwarded copy of a relayed guest
\* message is never linked and resolves to not-found; a reply to it ends
\* without a destination and without touching the store.  The record of a
\* message whose forward failed stays in the store, and the only admin ids
\* that resolve to it are copies from another delivery of the same message.
AdminIds == DOMAIN links \cup (0..nextAdminId)

UnlinkedNotFound ==
    /\ \A a \in AdminIds :
          a \notin DOMAIN fwdLog => ~resolveRelay(links, relays, a).found
    /\ \A i \in Slots :
          (IsReply(hs[i]) /\ hs[i].resolved.a \notin DOMAIN fwdLog)
             => ~hs[i].resolved.found /\ hs[i].pc = "done"
    /\ \A i \in Slots :
          InTrace(hs[i], "forwardFailed") =>
             /\ Has(relays, hs[i].relay)
             /\ \A a \in DOMAIN links :
                   links[a] = hs[i].relay =>
                      a \in DOMAIN fwdLog /\ fwdLog[a] = hs[i].relay

\* C5 witness: the forward of a message failed, its record is in the store
\* and unreachable, and the admin's reply to another message was a miss.
UnlinkedNotFoundWitness ==
    \E i, j \in Slots :
       /\ InTrace(hs[i], "forwardFailed") /\ Has(relays, hs[i].relay)
       /\ \A a \in DOMAIN links : links[a] # hs[i].relay
       /\ IsReply(hs[j]) /\ ~hs[j].resolved.found

\* C6: createRelay never replaces a record by different content.  The record
\* stored for a guest and message id is at all times the record of that
\* message as the guest sent it, also after the message was delivered and
\* relayed again, and every admin message id linked to it resolves to that
\* guest.
RelayNeverOverwritten ==
    /\ \A k \in DOMAIN relays :
          /\ Has(sent, k)
          /\ relays[k] = relayRecord(k[1], k[2], textContent(sent[k]))
    /\ \A a \in DOMAIN links :
          /\ Has(relays, links[a])
          /\ resolveRelay(links, relays, a).guestId = links[a][1]

\* C6 witness: one message was delivered twice and createRelay ran for both
\* deliveries; a forwarded copy is linked to the record, and the same guest
\* has another message with other content.
RelayNeverOverwrittenWitness ==
    /\ \E i, j \in Slots :
          /\ i # j /\ hs[i].g = hs[j].g /\ hs[i].m = hs[j].m
          /\ InTrace(hs[i], "createRelay") /\ InTrace(hs[j], "createRelay")
          /\ \E a \in DOMAIN links : links[a] = hs[i].relay
    /\ \E k \in DOMAIN relays : relays[k].preview = "t1"

\* C9: the rate limiter and the trust counter only ever lose updates.  The
\* stored count of a guest is never above the number of calls that were
\* allowed in the window, and the stored trust score never above the number
\* of messages that passed moderation.
CountersOnlyLose ==
    \A g \in Guests :
       /\ Get(rate, g, [count |-> 0]).count <= allowed[g]
       /\ Get(trust, g, 0) <= passed[g]

\* C9 witness: two concurrent messages of guest 1 both read count 9 and both
\* wrote 10, so 11 messages were allowed in one window of 10, and both read
\* the same trust score, so one pass is missing from it.
LostUpdateWitness ==
    /\ Has(rate, 1) /\ rate[1].count < allowed[1]
    /\ allowed[1] > 10
    /\ Has(trust, 1) /\ trust[1] < passed[1]
    /\ \A i \in Slots : hs[i].g = 1 /\ hs[i].pc = "done"

\* C7: fixed window of 10 requests per 60000 ms, calls made one after the
\* other.  The first ten calls of a guest inside one window are allowed, the
\* eleventh and every later call inside it are denied with resetIn > 0, and
\* the first call of a window (the guest's first call ever, or the first one
\* made 60000 ms or more after the window began) is allowed and leaves
\* count = 1, windowStart = now.
FixedWindowLimit ==
    LET c == seq.last IN
    c.kind = "checkRateLimit" =>
       /\ c.nth <= 10 => c.allowed /\ rate[c.g].count = c.nth
       /\ c.nth > 10 => ~c.allowed /\ c.resetIn > 0
       /\ c.nth = 1 => rate[c.g] = [count |-> 1, windowStart |-> c.t]

\* C7 witness: a guest's call opens a new window after the previous window
\* had filled up, while the other guest has made more than ten calls in its
\* window.
FixedWindowLimitWitness ==
    LET c == seq.last IN
    /\ c.kind = "checkRateLimit" /\ c.nth = 1 /\ c.allowed
    /\ Has(c.before, c.g) /\ c.before[c.g].count = 10
    /\ c.t - c.before[c.g].windowStart >= 60000
    /\ \E g \in Guests \ {c.g} : seq.calls[g] > 10 /\ rate[g].count = 10

\* C8: a denied call leaves the whole store of rate windows as it was and
\* reports resetIn = ceil((windowStart + 60000 - now) / 1000); no stored
\* count is ever above 10, and a call for one guest never changes the window
\* of another.
DeniedCallFrame ==
    LET c == seq.last IN
    /\ \A g \in DOMAIN rate : rate[g].count <= 10
    /\ c.kind = "checkRateLimit" =>
          /\ \A g \in Guests \ {c.g} :
                /\ Has(rate, g) <=> Has(c.before, g)
                /\ Has(rate, g) => rate[g] = c.before[g]
          /\ ~c.allowed =>
                /\ rate = c.before
                /\ Has(rate, c.g)
                /\ LET left == rate[c.g].windowStart + 60000 - c.t IN
                   /\ c.resetIn * 1000 >= left
                   /\ (c.resetIn - 1) * 1000 < left

\* C8 witness: a call is denied with one second left of the window while the
\* other guest has a window of its own.
DeniedCallFrameWitness ==
    LET c == seq.last IN
    /\ c.kind = "checkRateLimit" /\ ~c.allowed /\ c.resetIn = 1
    /\ rate[c.g].count = 10
    /\ \E g \in Guests \ {c.g} : Has(rate, g) /\ rate[g].count = 3

\* C10: trust threshold of 3.  Counting from a store without the guest, the
\* guest is trusted exactly when three or more incrementTrustScore calls were
\* made for it: not before any, not after two, and a stored score below 3 is
\* never trusted.
TrustThresholdOfThree ==
    /\ \A g \in Guests :
          /\ isUserTrusted(trust, g) <=> seq.incs[g] >= 3
          /\ Get(trust, g, 0) = seq.incs[g]
          /\ ~Has(trust, g) => ~isUserTrusted(trust, g)
    /\ seq.last.kind = "isUserTrusted" =>
          (seq.last.trusted <=> seq.incs[seq.last.g] >= 3)

\* C10 witness: isUserTrusted answers true for a guest after exactly three
\* increments while a guest with two increments is not trusted.
TrustThresholdWitness ==
    /\ seq.last.kind = "isUserTrusted" /\ seq.last.trusted
    /\ seq.incs[seq.last.g] = 3
    /\ \E g \in Guests : seq.incs[g] = 2 /\ ~isUserTrusted(trust, g)

\* C12 (the claim as stated): no step ever lowers the stored trust score of a
\* guest.
TrustNeverDecreases ==
    [][\A g \in Guests : Get(trust', g, 0) >= Get(trust, g, 0)]_vars

\* C12 (amended): the stored trust score is a non-negative integer; the only
\* step that changes it is the write of incrementTrustScore, which stores the
\* score that handler read plus one; auto-blocking and every other step leave
\* it alone.  So a write whose read is still current (sequential use) raises
\* the score by one and a trusted guest stays trusted, and the score goes
\* down only by a write whose read other increments have overtaken.
TrustRatchet ==
    [][\A g \in Guests :
          /\ Get(trust', g, 0) \in Nat
          /\ Get(trust', g, 0) # Get(trust, g, 0) =>
                \E i \in Slots :
                   /\ hs[i].pc = "trustWrite" /\ hs'[i].pc = "create"
                   /\ hs[i].g = g
                   /\ Get(trust', g, 0) = hs[i].read + 1
                   /\ hs[i].read = Get(trust, g, 0) =>
                         /\ Get(trust', g, 0) = Get(trust, g, 0) + 1
                         /\ isUserTrusted(trust, g) => isUserTrusted(trust', g)
                   /\ Get(trust', g, 0) < Get(trust, g, 0) =>
                         hs[i].read < Get(trust, g, 0)]_vars

\* C12 witness: guest 1 became trusted by an increment and was then blocked
\* by the filter for another message; the score is still 3.
TrustRatchetWitness ==
    /\ Get(trust, 1, 0) = 3
    /\ isGuestBlocked(blocked, 1) /\ blocked[1].reason = aiReason(Violation)
    /\ \E i, j \in Slots :
          /\ hs[i].g = 1 /\ InTrace(hs[i], "incrementTrustScore")
          /\ hs[j].g = 1 /\ InTrace(hs[j], "setGuestBlocked")

\* C13 (the claim as stated): for every text, checkContentSafety is called at
\* most once, in every interleaving of the messages handled.
ScoredAtMostOnce == \A t \in Texts : scored[t] <= 1

\* C15: moderation cache round trip.  After cacheModerationResult(fp, v), for
\* a violation string as for the safe verdict, getCachedModerationResult(fp)
\* answers hit = true with result = v, until fp is cached again; a
\* fingerprint never cached answers hit = false; and caching fp leaves the
\* entry of every other fingerprint as it was.
CacheRoundTrip ==
    LET c == seq.last IN
    /\ \A fp \in Texts :
          getCachedModerationResult(cache, fp) =
             (IF seq.cached[fp] = Uncached THEN [hit |-> FALSE, result |-> NULL]
              ELSE [hit |-> TRUE, result |-> seq.cached[fp]])
    /\ c.kind = "getCachedModerationResult" =>
          /\ c.hit <=> seq.cached[c.fp] # Uncached
          /\ c.hit => c.result = seq.cached[c.fp]
    /\ c.kind = "cacheModerationResult" =>
          /\ getCachedModerationResult(cache, c.fp) =
                [hit |-> TRUE, result |-> c.result]
          /\ \A fp \in Texts \ {c.fp} :
                getCachedModerationResult(cache, fp) =
                   getCachedModerationResult(c.before, fp)

\* C15 witness: a lookup hits the safe verdict cached for one fingerprint
\* while a violation is cached for the other.
CacheRoundTripWitness ==
    LET c == seq.last IN
    /\ c.kind = "getCachedModerationResult" /\ c.hit /\ c.result = NULL
    /\ \E fp \in Texts \ {c.fp} : seq.cached[fp] = Violation

\* C18: block round trip.  After setGuestBlocked(G, true, R) the guest is
\* blocked and getBlockInfo(G).reason is R, until the next setGuestBlocked for
\* G; the block state of every other guest is as before the call; a guest
\* never blocked is not blocked and its lookup answers the default (not
\* found), never an error.
BlockRoundTrip ==
    LET c == seq.last IN
    /\ \A g \in Guests :
          /\ isGuestBlocked(blocked, g) <=> seq.blocks[g] # ""
          /\ isGuestBlocked(blocked, g) =>
                /\ getBlockInfo(blocked, g).found
                /\ getBlockInfo(blocked, g).reason = seq.blocks[g]
          /\ g \notin seq.ever =>
                /\ ~isGuestBlocked(blocked, g)
                /\ getBlockInfo(blocked, g) =
                      [found |-> FALSE, reason |-> "", blockedAt |-> 0]
    /\ (c.kind = "setGuestBlocked" /\ c.flag) =>
          /\ isGuestBlocked(blocked, c.g)
          /\ getBlockInfo(blocked, c.g).reason = c.reason
    /\ c.kind = "setGuestBlocked" =>
          \A g \in Guests \ {c.g} :
             /\ isGuestBlocked(blocked, g) <=> isGuestBlocked(c.before, g)
             /\ getBlockInfo(blocked, g) = getBlockInfo(c.before, g)
    /\ c.kind = "getBlockInfo" =>
          /\ c.flag <=> seq.blocks[c.g] # ""
          /\ c.found <=> c.flag
          /\ c.flag => c.reason = seq.blocks[c.g]

\* C18 witness: a guest was blocked with one reason while the other guest,
\* blocked with the other reason, kept its block; and some guest's lookup
\* answered the default.
BlockRoundTripWitness ==
    LET c == seq.last IN
    /\ c.kind = "setGuestBlocked" /\ c.flag /\ c.reason = "admin"
    /\ \E g \in Guests \ {c.g} :
          isGuestBlocked(blocked, g) /\ blocked[g].reason = aiReason(Violation)

(***************************************************************************)
(* Properties of one handler, read off the calls it has made.              *)
(***************************************************************************)
Count(h, tags) == Cardinality({k \in 1..Len(h.trace) : h.trace[k] \in tags})
ThrowTags == {ThrowTag(pc) : pc \in CallPcs \cup {"reply"}}
Clean(h) == Count(h, ThrowTags) = 0
IsGuestMessage(h) == h.pc # "idle" /\ ~IsReply(h)
ModerationPcs == {"cacheRead", "modText", "photo", "sticker"}
UnsafeTags == {"counterRead", "incrementCounter", "setGuestBlocked"}
RelayTags == {"createRelay", "forwardOk", "forwardFailed", "linkAdminMessage"}
ForwardTags == {"forwardOk", "forwardFailed", ThrowTag("forward")}

\* C11: incrementTrustScore is called at most once per guest message, and
\* only for a message of a guest not blocked, that is no command, was let
\* through by the rate limiter, and was moderated (filter enabled, key
\* configured, guest not trusted) without an unsafe verdict.  Every message
\* that is relayed after moderation has had its one increment, before the
\* relay was created; a message handled to the end without a failure has an
\* increment exactly when it was moderated and passed.
TrustIncrementOncePerPass ==
    \A i \in Slots :
       LET h == hs[i]
           calls == Count(h, {"trustRead", ThrowTag("trustRead")})
           eligible == /\ ~h.blocked
                       /\ textOf(h.msg) \notin Commands
                       /\ InTrace(h, "rateAllowed")
                       /\ filterActive(geminiKey)
                       /\ InTrace(h, "isUserTrusted") /\ ~h.trusted
                       /\ h.verdict = NULL
                       /\ Count(h, UnsafeTags) = 0
       IN IsGuestMessage(h) =>
             /\ calls <= 1
             /\ Count(h, {"incrementTrustScore"}) <= calls
             /\ calls = 1 => eligible
             /\ (InTrace(h, "createRelay") \/ h.pc = "create") =>
                   IF filterActive(geminiKey) /\ ~h.trusted
                   THEN Count(h, {"incrementTrustScore"}) = 1
                   ELSE calls = 0
             /\ (h.pc = "done" /\ Clean(h)) => (calls = 1 <=> eligible)

\* C11 witness: the message of a guest who became trusted by the pass of an
\* earlier message was relayed without a call of incrementTrustScore.
TrustIncrementWitness ==
    \E i \in Slots :
       /\ hs[i].pc = "done" /\ hs[i].trusted /\ InTrace(hs[i], "forwardOk")
       /\ ~InTrace(hs[i], "trustRead")
       /\ trust[hs[i].g] = TRUST_THRESHOLD /\ passed[hs[i].g] = TRUST_THRESHOLD

\* C14 (the claim as stated): every external moderation call of a handler,
\* checkContentSafety for the text or caption and checkImageSafety for the
\* photo and for the sticker, comes right after a read of the moderation
\* cache and is followed at once by a write of it.
CacheAroundEveryCall ==
    \A i \in Slots :
       \A k \in 1..Len(hs[i].trace) :
          hs[i].trace[k] \in {"checkContentSafety", "checkImageSafety"} =>
             /\ k > 1 /\ hs[i].trace[k - 1] = "cacheMiss"
             /\ k < Len(hs[i].trace)
             /\ hs[i].trace[k + 1] = "cacheModerationResult"

\* C16: pipeline order.  The calls of a handler come in the order block
\* check, rate limiter, trust check, moderation, trust increment or unsafe
\* handling, createRelay, forwardMessage, linkAdminMessage, and a stage is
\* reached only when every earlier one let the message through: a
\* rate-limited message has no moderation, trust or relay call, an unsafe one
\* no relay and no forward.
Stage(tag) ==
    CASE tag = "isGuestBlocked" -> 1
      [] tag \in {"rateRead", "rateAllowed", "rateDenied"} -> 2
      [] tag = "isUserTrusted" -> 3
      [] tag \in {"cacheHit", "cacheMiss", "checkContentSafety",
                  "cacheModerationResult", "checkImageSafety", "noFileUrl"} -> 4
      [] tag \in UnsafeTags \cup {"trustRead", "incrementTrustScore"} -> 5
      [] tag = "createRelay" -> 6
      [] tag \in {"forwardOk", "forwardFailed"} -> 7
      [] tag = "linkAdminMessage" -> 8
      [] OTHER -> 0

PipelineOrder ==
    \A i \in Slots :
       LET h == hs[i]
           reached(n) == \E k \in 1..Len(h.trace) : Stage(h.trace[k]) >= n
       IN IsGuestMessage(h) =>
             /\ \A k, l \in 1..Len(h.trace) :
                   (k < l /\ Stage(h.trace[k]) > 0 /\ Stage(h.trace[l]) > 0)
                      => Stage(h.trace[k]) <= Stage(h.trace[l])
             /\ reached(2) =>
                   /\ h.trace[1] = "isGuestBlocked" /\ ~h.blocked
                   /\ textOf(h.msg) \notin Commands
             /\ reached(3) => InTrace(h, "rateAllowed")
             /\ InTrace(h, "rateDenied") => ~reached(3)
             /\ (Count(h, {"cacheHit", "cacheMiss", "checkContentSafety",
                           "checkImageSafety", "noFileUrl"}) > 0
                   \/ h.pc \in ModerationPcs) =>
                   /\ filterActive(geminiKey)
                   /\ InTrace(h, "isUserTrusted") /\ ~h.trusted
             /\ (reached(6) \/ h.pc = "create") =>
                   /\ Count(h, UnsafeTags) = 0 /\ h.verdict = NULL
                   /\ filterActive(geminiKey) =>
                         /\ InTrace(h, "isUserTrusted")
                         /\ h.trusted \/ InTrace(h, "incrementTrustScore")
             /\ (h.verdict # NULL \/ Count(h, UnsafeTags) > 0) =>
                   Count(h, RelayTags) = 0
             /\ reached(7) => InTrace(h, "createRelay")
             /\ reached(8) => InTrace(h, "forwardOk")

\* C16 witness: a photo with a caption went through every stage.
PipelineOrderWitness ==
    \E i \in Slots :
       /\ hs[i].pc = "done"
       /\ hs[i].trace =
             <<"isGuestBlocked", "rateRead", "rateAllowed", "isUserTrusted",
               "cacheMiss", "checkContentSafety", "cacheModerationResult",
               "checkImageSafety", "trustRead", "incrementTrustScore",
               "createRelay", "forwardOk", "linkAdminMessage">>

\* C17 (the claim as stated): whichever call throws, on whichever branch,
\* the handler catches it, makes one attempt at the generic notice, and ends
\* without passing an error to its caller.
FailuresCaught ==
    \A i \in Slots :
       LET h == hs[i] IN
       ~Clean(h) =>
          /\ h.pc \in {"caught", "done"}
          /\ h.pc = "done" => Count(h, {"notified", "notifyFailed"}) = 1

\* C19: no retries.  A handler calls forwardMessage at most once and each
\* moderation check at most once, whether the call answers, answers not-ok
\* or throws; after a forward that failed nothing follows, and after a call
\* that threw nothing follows but at most one generic notice.
NoRetries ==
    \A i \in Slots :
       LET h == hs[i] IN
       /\ Count(h, ForwardTags) <= 1
       /\ Count(h, {"checkContentSafety", ThrowTag("modText")}) <= 1
       /\ Count(h, {"checkImageSafety", "noFileUrl", ThrowTag("photo"),
                    ThrowTag("sticker")}) <= 1
       /\ \A k \in 1..Len(h.trace) :
             /\ h.trace[k] = "forwardFailed" => k = Len(h.trace) /\ h.pc = "done"
             /\ h.trace[k] \in ThrowTags =>
                   \/ k = Len(h.trace)
                   \/ /\ k + 1 = Len(h.trace)
                      /\ h.trace[k + 1] \in {"notified", "notifyFailed"}

\* C19 witness: the forward threw and the handler ended with the notice.
NoRetriesWitness ==
    \E i \in Slots :
       /\ hs[i].pc = "done" /\ InTrace(hs[i], ThrowTag("forward"))
       /\ hs[i].trace[Len(hs[i].trace)] = "notified"

\* C20: fail-open moderation.  Once checkMessageContent has returned, a
\* handler with no verdict (null) goes on to the trust increment, createRelay
\* and forwardMessage and never to the unsafe handling, so it does not block
\* the guest; with any other result it goes to the unsafe handling and
\* relays nothing.
FailOpen ==
    \A i \in Slots :
       LET h == hs[i]
           returned == /\ InTrace(h, "isUserTrusted") /\ ~h.trusted
                       /\ h.pc \notin ModerationPcs \cup {"trust"}
                       /\ Count(h, {ThrowTag(pc) : pc \in ModerationPcs}) = 0
       IN (IsGuestMessage(h) /\ returned) =>
             IF h.verdict = NULL
             THEN /\ Count(h, UnsafeTags) = 0
                  /\ h.pc \in {"trustRead", "trustWrite", "create", "forward",
                               "link", "caught", "done"}
                  /\ (h.pc = "done" /\ Clean(h)) =>
                        /\ InTrace(h, "createRelay")
                        /\ InTrace(h, "forwardOk") \/ InTrace(h, "forwardFailed")
             ELSE /\ h.pc \in {"countRead", "countWrite", "block", "escaped",
                               "done"}
                  /\ Count(h, RelayTags \cup {"trustRead"}) = 0
                  /\ (h.pc = "done") =>
                        /\ InTrace(h, "setGuestBlocked")
                        /\ h.reply = "guest_message_blocked"

\* C20 witness: the text check and the photo check both gave no verdict, the
\* message was forwarded and the guest is not blocked.
FailOpenWitness ==
    \E i \in Slots :
       /\ hs[i].pc = "done" /\ hs[i].verdict = NULL
       /\ InTrace(hs[i], "checkContentSafety") /\ InTrace(hs[i], "checkImageSafety")
       /\ InTrace(hs[i], "forwardOk")
       /\ ~isGuestBlocked(blocked, hs[i].g)

\* C21 (the claim as stated): no step lowers or resets the counter
\* "ai-blocks", and the counter has gone up by one for every message whose
\* moderation result was not null.
CounterNeverDecreases == [][counter' >= counter]_vars

\* C21 (amended): the counter is a non-negative integer changed by nothing
\* but the write of incrementCounter in handleUnsafeContent, which stores the
\* value that handler read plus one.  A handler calls incrementCounter at
\* most once, and only for a message whose moderation result is not null: a
\* message that is relayed, rate-limited, from a blocked guest or a command
\* never touches the counter, and a message handled to the end with a
\* non-null result has called it exactly once.  A write whose read is still
\* current raises the counter by one; when unsafe messages are handled
\* concurrently, a write whose read other increments have overtaken loses
\* them and can lower the stored value.
CounterUse(h) ==
    LET calls == Count(h, {"counterRead"}) IN
    /\ calls <= 1
    /\ Count(h, {"incrementCounter"}) <= calls
    /\ calls = 1 =>
          /\ h.verdict # NULL /\ ~h.blocked /\ ~h.trusted
          /\ textOf(h.msg) \notin Commands
          /\ InTrace(h, "rateAllowed")
          /\ Count(h, RelayTags) = 0
    /\ (h.pc = "done" /\ h.verdict # NULL) => Count(h, {"incrementCounter"}) = 1

CounterBestEffort ==
    [][/\ counter' \in Nat
       /\ \A i \in Slots : CounterUse(hs'[i])
       /\ counter' # counter =>
             \E i \in Slots :
                /\ hs[i].pc = "countWrite" /\ hs'[i].pc = "block"
                /\ hs[i].verdict # NULL
                /\ counter' = hs[i].read + 1
                /\ hs[i].read = counter => counter' = counter + 1
                /\ counter' < counter => hs[i].read < counter]_vars

\* C21 witness: two unsafe messages were counted one after the other, and
\* the later of the two handlers has ended.
CounterBestEffortWitness ==
    /\ counter = 2
    /\ \E i \in Slots :
          /\ hs[i].pc = "done" /\ InTrace(hs[i], "incrementCounter")
          /\ hs[i].reply = "guest_message_blocked"

\* C22: unsafe content with AUTO_BLOCK = true.  A handler whose moderation
\* result V is not null relays nothing and raises no trust; the write of
\* handleUnsafeContent leaves the guest blocked with reason "AI Filter: V"
\* and the handler answers with the message-blocked notice; and a handler
\* for a non-command message of the guest that reads the block status while
\* that block is in the store ends with the blocked notice and relays
\* nothing.
UnsafeContentBlocks ==
    [][\A i \in Slots :
          /\ (IsGuestMessage(hs'[i]) /\ hs'[i].verdict # NULL) =>
                /\ ~hs'[i].trusted
                /\ hs'[i].pc \in {"countRead", "countWrite", "block", "done"}
                /\ Count(hs'[i], RelayTags \cup
                                 {"trustRead", "incrementTrustScore"}) = 0
                /\ hs'[i].relay = NoRelay /\ ~hs'[i].fwd.ok
          /\ (hs[i].pc = "block" /\ hs'[i].pc # "block") =>
                /\ isGuestBlocked(blocked', hs[i].g)
                /\ getBlockInfo(blocked', hs[i].g).reason =
                      "AI Filter: " \o hs[i].verdict
                /\ hs'[i].pc = "done"
                /\ hs'[i].reply = "guest_message_blocked"
          /\ (/\ hs[i].pc = "start" /\ hs'[i].pc # "start"
              /\ isGuestBlocked(blocked, hs[i].g)
              /\ textOf(hs[i].msg) \notin Commands) =>
                /\ hs'[i].blocked
                /\ hs'[i].pc = "done" /\ hs'[i].reply = "guest_blocked"
                /\ Count(hs'[i], RelayTags) = 0]_vars

\* C22 witness: a message of a guest was judged unsafe and the guest blocked
\* for it; a later text message of the same guest got the blocked notice.
UnsafeContentBlocksWitness ==
    \E i, j \in Slots :
       /\ hs[i].pc = "done" /\ hs[i].reply = "guest_message_blocked"
       /\ hs[i].verdict = Violation
       /\ isGuestBlocked(blocked, hs[i].g)
       /\ blocked[hs[i].g].reason = "AI Filter: spam"
       /\ hs[j].g = hs[i].g /\ hs[j].msg.text \in Texts
       /\ hs[j].pc = "done" /\ hs[j].reply = "guest_blocked"

\* C23: trusted guests skip moderation.  A handler that read the guest as
\* trusted makes no moderation call, no cache read or write, no trust or
\* counter or block call, and none of its steps changes the trust scores, the
\* blocks or the cache; right after the trust check it calls createRelay and
\* then forwardMessage, whatever the message holds.
ModerationTags ==
    {"cacheHit", "cacheMiss", "checkContentSafety", "cacheModerationResult",
     "checkImageSafety", "noFileUrl"}

TrustedSkipsModeration ==
    [][\A i \in Slots :
          /\ hs'[i].trusted =>
                LET h == hs'[i] IN
                /\ Count(h, ModerationTags \cup UnsafeTags \cup
                            {"trustRead", "incrementTrustScore"}) = 0
                /\ h.pc \in {"create", "forward", "link", "caught", "done"}
                /\ \A k \in 1..(Len(h.trace) - 1) :
                      h.trace[k] = "isUserTrusted" =>
                         h.trace[k + 1] \in {"createRelay", ThrowTag("create")}
                /\ (h.pc = "done" /\ Clean(h)) =>
                      /\ InTrace(h, "createRelay")
                      /\ InTrace(h, "forwardOk") \/ InTrace(h, "forwardFailed")
          /\ (hs[i].trusted /\ hs'[i] # hs[i]) =>
                /\ trust' = trust /\ blocked' = blocked /\ cache' = cache
                /\ counter' = counter]_vars

\* C23 witness: the photo of a trusted guest was forwarded unchecked.
TrustedSkipsModerationWitness ==
    \E i \in Slots :
       /\ hs[i].trusted /\ hs[i].pc = "done" /\ hs[i].msg.photo
       /\ hs[i].trace = <<"isGuestBlocked", "rateRead", "rateAllowed",
                          "isUserTrusted", "createRelay", "forwardOk",
                          "linkAdminMessage">>

\* C24: commands.  /lang is answered with the language prompt, blocked or
\* not; /appeal goes to the admin only for a blocked guest and is otherwise
\* answered with the not-blocked notice; /start is answered with the welcome
\* only for a guest not blocked (a blocked one gets the blocked notice); and
\* a command makes no rate-limit, trust, moderation or relay call.
CommandsOnly ==
    \A i \in Slots :
       LET h == hs[i]
           text == textOf(h.msg)
       IN IsGuestMessage(h) =>
             /\ InTrace(h, "appeal") => text = "/appeal" /\ h.blocked
             /\ text \in Commands =>
                   /\ Count(h, {"rateRead", "rateAllowed", "rateDenied",
                                "isUserTrusted", "trustRead",
                                "incrementTrustScore"}
                               \cup ModerationTags \cup UnsafeTags
                               \cup RelayTags) = 0
                   /\ h.relay = NoRelay
                   /\ (h.pc = "done" /\ Clean(h)) =>
                         /\ h.reply =
                               (CASE text = "/lang" -> "lang_select_prompt"
                                  [] text = "/appeal" ->
                                       IF h.blocked THEN "guest_appeal_submitted"
                                       ELSE "guest_not_blocked"
                                  [] text = "/start" ->
                                       IF h.blocked THEN "guest_blocked"
                                       ELSE "guest_welcome")
                         /\ (text = "/appeal" /\ h.blocked) => InTrace(h, "appeal")

\* C24 witness: the /appeal of a blocked guest went to the admin.
CommandsOnlyWitness ==
    \E i \in Slots :
       /\ hs[i].pc = "done" /\ hs[i].msg.text = "/appeal" /\ hs[i].blocked
       /\ hs[i].reply = "guest_appeal_submitted"
       /\ isGuestBlocked(blocked, hs[i].g)
       /\ rate[hs[i].g].count = allowed[hs[i].g]

\* C25 (the claim as stated): the moderation cache is transparent.  For
\* every message whose text or caption has a cache entry, checkMessageContent
\* returns what it returns on an empty cache when the text check answers
\* what the entry holds and the image check answers the same.
CacheTransparent ==
    \A msg \in Shapes, ans \in Answers :
       (/\ textContent(msg) # ""
        /\ Has(cache, textContent(msg))
        /\ ans.text = cache[textContent(msg)]) =>
          checkMessageContent(msg, cache, ans) =
             checkMessageContent(msg, EmptyStore, ans)

\* C26 (the claim as stated): a handler calls incrementTrustScore only when
\* it obtained at least one moderation verdict for the message: a cache hit,
\* or an answer of the text, photo or sticker check.
TrustOnlyAfterVerdict ==
    \A i \in Slots :
       InTrace(hs[i], "trustRead") =>
          Count(hs[i], {"cacheHit", "checkContentSafety", "checkImageSafety"}) >= 1

=============================================================================
